---- MODULE Spec2Model ----
(***************************************************************************)
(* Model of kubernetes-resources/app.py: a FastAPI application with four   *)
(* GET handlers (root, version, health, predict), a version string read    *)
(* from the environment at import time, and a process-wide logger.         *)
(*                                                                         *)
(* Paths are sequences of tokens: "/version" is <<"/", "version">>, "/" is *)
(* <<"/">>, "/version/" is <<"/", "version", "/">>.  Confidences are        *)
(* integer hundredths (0.70 is 70).                                        *)
(***************************************************************************)
EXTENDS Integers, Sequences, FiniteSets, TLC

VARIABLES
    environ,      \* os.environ at process start: a set of <<name, value>> pairs
    APP_VERSION,  \* module-level APP_VERSION (app.py:14)
    log,          \* records emitted through `logger`, in order
    calls,        \* number of invocations of each handler so far
    pc,           \* per request slot: "idle" or the handler statement reached
    frame,        \* per request slot: the request and the handler's locals
    sent,         \* the last response put on the wire, with its request
    firstReply    \* per static route: body of the first response it returned

vars == <<environ, APP_VERSION, log, calls, pc, frame, sent, firstReply>>

----------------------------------------------------------------------------
(* Bounds of the model *)

\* request slots that may be in flight at once
MaxInFlight == 2
\* log records a behaviour of Spec may emit: a handler is entered only when the
\* log has room for its records and for those of the handlers in progress
MaxLog == 4
\* the same for the one-request-at-a-time specifications
SeqLog == 2
\* resolution of random.random() in Spec: it yields u/Res, u in 0..Res
Res == 1
\* resolution of random.random() in SpecSeq (half-hundredth steps)
FineRes == 58

Slots == 1..MaxInFlight

----------------------------------------------------------------------------
(* Configuration: app.py:13-14 *)

Environs ==
    { {}, {<<"APP_VERSION", "">>}, {<<"APP_VERSION", "v2.3">>} }

\* `os.getenv(key) or default`, which also replaces ""
getenv_falsy(env, key, default) ==
    IF \E p \in env : p[1] = key /\ p[2] # ""
    THEN (CHOOSE p \in env : p[1] = key)[2]
    ELSE default

\* os.getenv(key, default): the value when the key is present, else default
getenv(env, key, default) ==
    IF \E p \in env : p[1] = key
    THEN (CHOOSE p \in env : p[1] = key)[2]
    ELSE default

----------------------------------------------------------------------------
(* Routing table: FastAPI(...) at app.py:16-20 registers the framework's   *)
(* documentation routes (docs_url, redoc_url, openapi_url keep their       *)
(* defaults); the @app.get decorators at app.py:22,27,32,37 register the   *)
(* four handlers for GET only.                                             *)

Handlers == {"root", "version", "health", "predict"}

RootPath == <<"/">>
VersionPath == <<"/", "version">>
HealthPath == <<"/", "health">>
PredictPath == <<"/", "predict">>

HandlerPaths == {RootPath, VersionPath, HealthPath, PredictPath}
StaticPaths == {RootPath, VersionPath, HealthPath}

routes ==
    << [path |-> <<"/", "openapi.json">>, methods |-> {"GET", "HEAD"}, endpoint |-> "openapi"],
       [path |-> <<"/", "docs">>, methods |-> {"GET", "HEAD"}, endpoint |-> "swagger_ui_html"],
       [path |-> <<"/", "docs", "/", "oauth2-redirect">>, methods |-> {"GET", "HEAD"},
        endpoint |-> "swagger_ui_redirect"],
       [path |-> <<"/", "redoc">>, methods |-> {"GET", "HEAD"}, endpoint |-> "redoc_html"],
       [path |-> RootPath, methods |-> {"GET"}, endpoint |-> "root"],
       [path |-> VersionPath, methods |-> {"GET"}, endpoint |-> "version"],
       [path |-> HealthPath, methods |-> {"GET"}, endpoint |-> "health"],
       [path |-> PredictPath, methods |-> {"GET"}, endpoint |-> "predict"] >>

RoutePaths == { routes[i].path : i \in 1..Len(routes) }

\* requests the clients send
Methods == {"GET", "POST", "HEAD"}
Paths ==
    HandlerPaths \cup
    { <<"/", "docs">>, <<"/", "nonexistent">>, <<"/", "health", "/">> }

\* a router that matches on the path alone
Match_anymethod(route, method, path) ==
    IF route.path # path THEN "NONE" ELSE "FULL"

\* one route against a request: path and method, path only, or neither
Match(route, method, path) ==
    IF route.path # path THEN "NONE"
    ELSE IF method \in route.methods THEN "FULL"
    ELSE "PARTIAL"

Matching(kind, method, path) ==
    { i \in 1..Len(routes) : Match(routes[i], method, path) = kind }

Least(S) == CHOOSE i \in S : \A j \in S : i <= j

\* redirect_slashes: the path with its trailing slash removed or added
ToggleSlash(path) ==
    IF path[Len(path)] = "/" THEN SubSeq(path, 1, Len(path) - 1)
    ELSE Append(path, "/")

SlashRedirects(method, path) ==
    /\ path # RootPath
    /\ \E i \in 1..Len(routes) : Match(routes[i], method, ToggleSlash(path)) # "NONE"

----------------------------------------------------------------------------
(* Response bodies and the predict computation: app.py:22-53 *)

\* a greeting that counts the requests logged so far
rootBody_counting(ver) ==
    [message |-> "Hello from FastAPI GitOps " \o ver \o "!",
     status |-> IF Len(log) > 1 THEN "busy" ELSE "running"]

\* a greeting without the version
rootBody_noversion(ver) ==
    [message |-> "Hello from FastAPI GitOps!", status |-> "running"]

\* app.py:25
rootBody(ver) ==
    [message |-> "Hello from FastAPI GitOps " \o ver \o "!", status |-> "running"]

\* a version report that drops the configured version for the default
versionBody_default(ver) ==
    [version |-> "v1", app |-> "FastAPI ML GitOps"]

\* app.py:30
versionBody(ver) ==
    [version |-> ver, app |-> "FastAPI ML GitOps"]

\* a health report without its version field
healthBody_bare(ver) ==
    [status |-> "healthy"]

\* app.py:35
healthBody(ver) ==
    [status |-> "healthy", version |-> ver]

\* app.py:42
predictions == <<"positive", "negative", "neutral">>

\* bounds of random.uniform at app.py:44, in hundredths
ConfLo == 70
ConfHi == 99

\* random.choice(seq) when the generator yields index i
choice(seq, i) == seq[i]

\* a + (b - a) * random() with the `a +` forgotten
uniform_nooffset(a, b, u, res) == (b - a) * u

\* random.uniform(a, b) = a + (b - a) * random() when random() yields u/res;
\* the value is in units of 1/res hundredths
uniform(a, b, u, res) == a * res + (b - a) * u

\* round(x, 2): x is in units of 1/res hundredths; ties go to the even hundredth
round2(x, res) ==
    LET q == x \div res
        r == x % res
    IN IF 2 * r < res THEN q
       ELSE IF 2 * r > res THEN q + 1
       ELSE IF q % 2 = 0 THEN q ELSE q + 1

\* app.py:46-51
result(prediction, confidence) ==
    [prediction |-> prediction, confidence |-> confidence,
     model_version |-> "1.0.0", timestamp |-> "2025-01-27T12:00:00Z"]

NoResult == [prediction |-> "", confidence |-> 0, model_version |-> "", timestamp |-> ""]
NoDraw == [i |-> 0, u |-> 0]
NoBody == [none |-> TRUE]
IdleFrame == [method |-> "", path |-> <<>>, draw |-> NoDraw, result |-> NoResult]
NothingSent ==
    [method |-> "", path |-> <<>>, status |-> 0, handler |-> "", body |-> NoBody,
     draw |-> NoDraw]

\* one record of the logger: logging.INFO, the message, and the value formatted into it
LogRecord(message, arg) == [levelname |-> "INFO", message |-> message, arg |-> arg]

\* logger.info calls in each handler
LinesOf(h) == IF h = "predict" THEN 2 ELSE 1

\* logger.info calls still ahead of the handler running at statement p
LinesAhead(p) ==
    IF p = "predict" THEN 2
    ELSE IF p \in {"root", "version", "health", "predict_draw", "predict_log"} THEN 1
    ELSE 0

\* records the handlers in progress on slots s, s+1, ... will still emit
RECURSIVE Owed(_)
Owed(s) == IF s \notin Slots THEN 0 ELSE LinesAhead(pc[s]) + Owed(s + 1)

Total(c) == c["root"] + c["version"] + c["health"] + c["predict"]

Response(s, status, handler, body) ==
    [method |-> frame[s].method, path |-> frame[s].path, status |-> status,
     handler |-> handler, body |-> body, draw |-> frame[s].draw]

----------------------------------------------------------------------------
(* State after import of app.py *)

Init ==
    /\ environ \in Environs
    /\ APP_VERSION = getenv(environ, "APP_VERSION", "v1")
    /\ log = <<>>
    /\ calls = [h \in Handlers |-> 0]
    /\ pc = [s \in Slots |-> "idle"]
    /\ frame = [s \in Slots |-> IdleFrame]
    /\ sent = NothingSent
    /\ firstReply = [p \in StaticPaths |-> NoBody]

----------------------------------------------------------------------------
(* The router *)

\* a full match on one of the four handlers: the handler is entered.  Slots
\* are interchangeable, so the request takes the lowest idle one.
Invoke(s, method, path, maxlog) ==
    /\ pc[s] = "idle"
    /\ \A t \in Slots : t < s => pc[t] # "idle"
    /\ Matching("FULL", method, path) # {}
    /\ LET r == routes[Least(Matching("FULL", method, path))]
       IN /\ r.endpoint \in Handlers
          /\ Len(log) + Owed(1) + LinesOf(r.endpoint) <= maxlog
          /\ pc' = [pc EXCEPT ![s] = r.endpoint]
          /\ calls' = [calls EXCEPT ![r.endpoint] = @ + 1]
    /\ frame' = [frame EXCEPT ![s] = [IdleFrame EXCEPT !.method = method, !.path = path]]
    /\ UNCHANGED <<environ, APP_VERSION, log, sent, firstReply>>

\* a full match on a documentation route: the framework answers
ServeDocs(s, method, path) ==
    /\ pc[s] = "idle"
    /\ Matching("FULL", method, path) # {}
    /\ LET r == routes[Least(Matching("FULL", method, path))]
       IN /\ r.endpoint \notin Handlers
          /\ sent' = [method |-> method, path |-> path, status |-> 200,
                      handler |-> "", body |-> [served |-> r.endpoint], draw |-> NoDraw]
    /\ UNCHANGED <<environ, APP_VERSION, log, calls, pc, frame, firstReply>>

\* the path matches a route, the method does not
MethodNotAllowed(s, method, path) ==
    /\ pc[s] = "idle"
    /\ Matching("FULL", method, path) = {}
    /\ Matching("PARTIAL", method, path) # {}
    /\ sent' = [method |-> method, path |-> path, status |-> 405, handler |-> "",
                body |-> [detail |-> "Method Not Allowed"], draw |-> NoDraw]
    /\ UNCHANGED <<environ, APP_VERSION, log, calls, pc, frame, firstReply>>

\* no route matches, but one matches the path with its trailing slash toggled
RedirectSlashes(s, method, path) ==
    /\ pc[s] = "idle"
    /\ Matching("FULL", method, path) = {}
    /\ Matching("PARTIAL", method, path) = {}
    /\ SlashRedirects(method, path)
    /\ sent' = [method |-> method, path |-> path, status |-> 307, handler |-> "",
                body |-> [location |-> ToggleSlash(path)], draw |-> NoDraw]
    /\ UNCHANGED <<environ, APP_VERSION, log, calls, pc, frame, firstReply>>

\* no route matches
NotFound(s, method, path) ==
    /\ pc[s] = "idle"
    /\ Matching("FULL", method, path) = {}
    /\ Matching("PARTIAL", method, path) = {}
    /\ ~SlashRedirects(method, path)
    /\ sent' = [method |-> method, path |-> path, status |-> 404, handler |-> "",
                body |-> [detail |-> "Not Found"], draw |-> NoDraw]
    /\ UNCHANGED <<environ, APP_VERSION, log, calls, pc, frame, firstReply>>

----------------------------------------------------------------------------
(* The handlers, one action per statement *)

Return(s, handler, body) ==
    /\ sent' = Response(s, 200, handler, body)
    /\ firstReply' =
         IF frame[s].path \in StaticPaths /\ firstReply[frame[s].path] = NoBody
         THEN [firstReply EXCEPT ![frame[s].path] = body]
         ELSE firstReply
    /\ pc' = [pc EXCEPT ![s] = "idle"]
    /\ frame' = [frame EXCEPT ![s] = IdleFrame]

\* app.py:24-25: no await between the two statements
root(s) ==
    /\ pc[s] = "root"
    /\ log' = Append(log, LogRecord("Root endpoint accessed", NoResult))
    /\ Return(s, "root", rootBody(APP_VERSION))
    /\ UNCHANGED <<environ, APP_VERSION, calls>>

\* app.py:29-30: no await between the two statements
version(s) ==
    /\ pc[s] = "version"
    /\ log' = Append(log, LogRecord("Version endpoint accessed", NoResult))
    /\ Return(s, "version", versionBody(APP_VERSION))
    /\ UNCHANGED <<environ, APP_VERSION, calls>>

\* app.py:34-35: no await between the two statements
health(s) ==
    /\ pc[s] = "health"
    /\ log' = Append(log, LogRecord("Health check endpoint accessed", NoResult))
    /\ Return(s, "health", healthBody(APP_VERSION))
    /\ UNCHANGED <<environ, APP_VERSION, calls>>

\* app.py:39
predict(s) ==
    /\ pc[s] = "predict"
    /\ log' = Append(log, LogRecord("Prediction endpoint accessed", NoResult))
    /\ pc' = [pc EXCEPT ![s] = "predict_draw"]
    /\ UNCHANGED <<environ, APP_VERSION, calls, frame, sent, firstReply>>

\* the drawn result kept in one variable shared by all requests
predict_store_shared(s, i, u, res) ==
    [t \in Slots |->
        IF pc[t] \in {"predict_draw", "predict_log", "predict_return"}
        THEN [frame[t] EXCEPT
                !.draw = IF t = s THEN [i |-> i, u |-> u] ELSE @,
                !.result = result(choice(predictions, i),
                                  round2(uniform(ConfLo, ConfHi, u, res), res))]
        ELSE frame[t]]

\* app.py:43-51: the locals of this request after the two draws
predict_store(s, i, u, res) ==
    [frame EXCEPT ![s] =
        [@ EXCEPT !.draw = [i |-> i, u |-> u],
                  !.result = result(choice(predictions, i),
                                    round2(uniform(ConfLo, ConfHi, u, res), res))]]

\* app.py:42-51
predict_draw(s, res) ==
    /\ pc[s] = "predict_draw"
    /\ \E i \in 1..Len(predictions), u \in 0..res :
          frame' = predict_store(s, i, u, res)
    /\ pc' = [pc EXCEPT ![s] = "predict_log"]
    /\ UNCHANGED <<environ, APP_VERSION, log, calls, sent, firstReply>>

\* the result line left out
predict_logline_none(r) == <<>>

\* the result line written before the result is built
predict_logline_stale(r) == <<LogRecord("Prediction made: ", NoResult)>>

\* app.py:52: the records logged for result r
predict_logline(r) == <<LogRecord("Prediction made: ", r)>>

\* app.py:52
predict_log(s) ==
    /\ pc[s] = "predict_log"
    /\ log' = log \o predict_logline(frame[s].result)
    /\ pc' = [pc EXCEPT ![s] = "predict_return"]
    /\ UNCHANGED <<environ, APP_VERSION, calls, frame, sent, firstReply>>

\* app.py:53
predict_return(s) ==
    /\ pc[s] = "predict_return"
    /\ Return(s, "predict", frame[s].result)
    /\ UNCHANGED <<environ, APP_VERSION, log, calls>>

----------------------------------------------------------------------------
(* Specifications *)

\* the statements of the handlers in progress on slot s
Run(s, res) ==
    \/ root(s) \/ version(s) \/ health(s)
    \/ predict(s) \/ predict_draw(s, res) \/ predict_log(s) \/ predict_return(s)

\* a GET for one of the four handlers arrives on slot s
Accept(s, maxlog) == \E path \in HandlerPaths : Invoke(s, "GET", path, maxlog)

\* any request arrives on slot s: the router enters a handler or answers by itself
Route(s, maxlog) ==
    \E method \in Methods, path \in Paths :
        \/ Invoke(s, method, path, maxlog)
        \/ ServeDocs(s, method, path)
        \/ MethodNotAllowed(s, method, path)
        \/ RedirectSlashes(s, method, path)
        \/ NotFound(s, method, path)

\* requests for the handlers in flight on every slot, the handlers interleaved
\* at the statements of predict
Next == \E s \in Slots : Accept(s, MaxLog) \/ Run(s, Res)

Spec == Init /\ [][Next]_vars

\* one request at a time, every method on every path, the random source at
\* fine resolution
NextSeq == Route(1, SeqLog) \/ Run(1, FineRes)

SpecSeq == Init /\ [][NextSeq]_vars

----------------------------------------------------------------------------
(* Properties *)

Quiescent == \A s \in Slots : pc[s] = "idle"

Labels == {"positive", "negative", "neutral"}

InRange(r) == r.prediction \in Labels /\ r.confidence \in 70..99

\* C1: every response of predict, and every result predict holds before it
\* returns, has a prediction among positive, negative, neutral and a
\* confidence that is a whole number of hundredths in 70..99.
PredictRange ==
    /\ sent.handler = "predict" => InRange(sent.body)
    /\ \A s \in Slots : pc[s] \in {"predict_log", "predict_return"} => InRange(frame[s].result)

\* C1 witness: predict answered with the largest draw, which rounds to 0.99
PredictRangeWitness ==
    /\ sent.handler = "predict"
    /\ sent.draw.u = FineRes
    /\ sent.body.confidence = 99
    /\ sent.body.prediction = "neutral"

\* C2: the version field of every response of GET /version and GET /health is
\* the value of APP_VERSION in the environment when it is set, and "v1" when
\* it is unset.
VersionIsConfigured ==
    (sent.status = 200 /\ sent.method = "GET" /\ sent.path \in {VersionPath, HealthPath}) =>
        IF \E p \in environ : p[1] = "APP_VERSION"
        THEN <<"APP_VERSION", sent.body.version>> \in environ
        ELSE sent.body.version = "v1"

\* C2 witness: GET /health answered with the version set in the environment
VersionIsConfiguredWitness ==
    /\ <<"APP_VERSION", "v2.3">> \in environ
    /\ sent.status = 200 /\ sent.method = "GET" /\ sent.path = HealthPath
    /\ sent.body.version = "v2.3"

\* C3 as claimed: when APP_VERSION is set to the empty string the configured
\* version is the default "v1", and the configured version is never empty.
EmptyVersionDefaults ==
    /\ <<"APP_VERSION", "">> \in environ => APP_VERSION = "v1"
    /\ APP_VERSION # ""

\* C3 as amended: when APP_VERSION is set to the empty string the configured
\* version is the empty string and /version and /health report it; the
\* default "v1" is used only when the variable is absent.
EmptyVersionKept ==
    /\ <<"APP_VERSION", "">> \in environ => APP_VERSION = ""
    /\ APP_VERSION = "" => <<"APP_VERSION", "">> \in environ
    /\ (environ = {}) => APP_VERSION = "v1"
    /\ (<<"APP_VERSION", "">> \in environ /\ sent.status = 200
          /\ sent.path \in {VersionPath, HealthPath}) => sent.body.version = ""

\* C3 witness: APP_VERSION set to the empty string and GET /version answered
EmptyVersionKeptWitness ==
    /\ <<"APP_VERSION", "">> \in environ
    /\ sent.status = 200 /\ sent.method = "GET" /\ sent.path = VersionPath
    /\ sent.body.version = ""

\* C4: a GET on /, /version, /health or /predict is answered 200 with exactly
\* the keys of its shape: {message, status} with status "running",
\* {version, app}, {status, version} with status "healthy", and {prediction,
\* confidence, model_version, timestamp} with model_version "1.0.0".
GetShapes ==
    (sent.method = "GET" /\ sent.path \in HandlerPaths) =>
        /\ sent.status = 200
        /\ sent.path = RootPath =>
              DOMAIN sent.body = {"message", "status"} /\ sent.body.status = "running"
        /\ sent.path = VersionPath => DOMAIN sent.body = {"version", "app"}
        /\ sent.path = HealthPath =>
              DOMAIN sent.body = {"status", "version"} /\ sent.body.status = "healthy"
        /\ sent.path = PredictPath =>
              /\ DOMAIN sent.body = {"prediction", "confidence", "model_version", "timestamp"}
              /\ sent.body.model_version = "1.0.0"

\* C4 witness: GET /health answered after GET / was
GetShapesWitness ==
    /\ sent.method = "GET" /\ sent.path = HealthPath /\ sent.status = 200
    /\ firstReply[RootPath] # NoBody

\* C5 as claimed: a path other than the four is answered 404 with no handler
\* run, a non-GET method on one of the four is answered 405 with no handler
\* run, and a handler runs only for GET on one of the four.
RouterFourPathsOnly ==
    sent.status # 0 =>
        /\ sent.path \notin HandlerPaths => sent.status = 404 /\ sent.handler = ""
        /\ (sent.path \in HandlerPaths /\ sent.method # "GET") =>
              sent.status = 405 /\ sent.handler = ""
        /\ sent.handler \in Handlers => sent.method = "GET" /\ sent.path \in HandlerPaths

\* the request matches no registered route, also with its trailing slash toggled
Unrouted(path) ==
    /\ path \notin RoutePaths
    /\ path = RootPath \/ ToggleSlash(path) \notin RoutePaths

\* C5 as amended: a request whose path is no registered route (the four
\* handlers and the documentation routes /openapi.json, /docs,
\* /docs/oauth2-redirect, /redoc), also with its trailing slash removed or
\* added, is answered 404; a non-GET method on one of the four handler paths
\* is answered 405; neither enters a handler nor logs; a handler runs only
\* for GET on its own path.
RouterDispatch ==
    /\ [](sent.status # 0 =>
            /\ Unrouted(sent.path) => sent.status = 404 /\ sent.handler = ""
            /\ (sent.path \in HandlerPaths /\ sent.method # "GET") =>
                  sent.status = 405 /\ sent.handler = ""
            /\ sent.handler \in Handlers =>
                  /\ sent.method = "GET"
                  /\ \E i \in 1..Len(routes) :
                        routes[i].path = sent.path /\ routes[i].endpoint = sent.handler)
    /\ [](\A s \in Slots : pc[s] # "idle" =>
            frame[s].method = "GET" /\ frame[s].path \in HandlerPaths)
    /\ [][(sent' # sent /\ sent'.status \in {404, 405}) =>
            UNCHANGED <<log, calls, pc, frame>>]_vars

\* C5 witness: POST /predict answered 405 after a handler had run
RouterDispatchWitness ==
    /\ sent.status = 405 /\ sent.method = "POST" /\ sent.path = PredictPath
    /\ Len(log) > 0

\* C6: every response of GET /, GET /version and GET /health equals the first
\* response that route gave, whatever requests ran before or between.
StaticIdempotent ==
    (sent.handler \in {"root", "version", "health"}) => sent.body = firstReply[sent.path]

\* C6 witness: / answered a second time, with a /predict between the two
StaticIdempotentWitness ==
    /\ sent.handler = "root" /\ calls["root"] = 2 /\ calls["predict"] = 1
    /\ Quiescent
    /\ log[1].message = "Root endpoint accessed"
    /\ log[Len(log)].message = "Root endpoint accessed"

BothReplied == firstReply[RootPath] # NoBody /\ firstReply[VersionPath] # NoBody

\* C7 as claimed: the greeting of / is "Hello from <AppName> <version>!" with
\* <AppName> the app field of /version and <version> the configured version.
GreetingUsesAppName ==
    BothReplied =>
        firstReply[RootPath].message =
            "Hello from " \o firstReply[VersionPath].app \o " " \o APP_VERSION \o "!"

\* C7 as amended: the greeting of / is "Hello from FastAPI GitOps <version>!"
\* with <version> the version /version reports; the name in the greeting is
\* not the app field of /version, which is "FastAPI ML GitOps".
GreetingName ==
    BothReplied =>
        /\ firstReply[RootPath].message =
              "Hello from FastAPI GitOps " \o firstReply[VersionPath].version \o "!"
        /\ firstReply[VersionPath].app = "FastAPI ML GitOps"
        /\ firstReply[VersionPath].app # "FastAPI GitOps"

\* C7 witness: / and /version have both answered, with a version from the environment
GreetingNameWitness ==
    /\ BothReplied
    /\ firstReply[VersionPath].version = "v2.3"

RECURSIVE Count(_, _)
\* the records of log prefix 1..n whose message is m
Count(m, n) ==
    IF n = 0 THEN 0 ELSE Count(m, n - 1) + (IF log[n].message = m THEN 1 ELSE 0)

\* C8 as claimed: when no handler is in progress the log holds one record per
\* handler invocation.
OneLinePerInvocation == Quiescent => Len(log) = Total(calls)

\* C8 as amended: root, version and health log one record per invocation and
\* predict logs two (its access line and its result line): when no handler is
\* in progress the log holds calls[root] + calls[version] + calls[health] +
\* 2 * calls[predict] records.
LinesPerHandler ==
    Quiescent =>
        /\ Len(log) = calls["root"] + calls["version"] + calls["health"] + 2 * calls["predict"]
        /\ Count("Root endpoint accessed", Len(log)) = calls["root"]
        /\ Count("Version endpoint accessed", Len(log)) = calls["version"]
        /\ Count("Health check endpoint accessed", Len(log)) = calls["health"]
        /\ Count("Prediction endpoint accessed", Len(log)) = calls["predict"]
        /\ Count("Prediction made: ", Len(log)) = calls["predict"]

\* C8 witness: one root and one predict have completed
LinesPerHandlerWitness ==
    Quiescent /\ calls["root"] = 1 /\ calls["predict"] = 1 /\ Len(log) = 3

\* C9: when predict returns, the log already holds a "Prediction made" record
\* carrying the result, and the response is that same result.
PredictLoggedThenReturned ==
    [][\A s \in Slots :
          (pc[s] = "predict_return" /\ pc'[s] = "idle") =>
              /\ \E i \in 1..Len(log) :
                    log[i] = LogRecord("Prediction made: ", sent'.body)
              /\ sent'.body = frame[s].result
              /\ sent'.handler = "predict"]_vars

\* C9 witness: two predicts with different results have logged, one has returned
PredictLoggedThenReturnedWitness ==
    /\ sent.handler = "predict"
    /\ \E s \in Slots : pc[s] = "predict_return" /\ frame[s].result # sent.body
    /\ Len(log) = 4

\* the response a request gets when it is the only one: a function of the
\* configured version and of its own draws
Solo(handler, draw, ver, res) ==
    CASE handler = "root" -> rootBody(ver)
      [] handler = "version" -> versionBody(ver)
      [] handler = "health" -> healthBody(ver)
      [] handler = "predict" ->
            result(choice(predictions, draw.i),
                   round2(uniform(ConfLo, ConfHi, draw.u, res), res))

\* C10: under every interleaving each response of a handler is the response
\* the request gets alone (for predict, with the same draws), no step changes
\* the configured version or the environment, and the log only grows.
RequestsIndependent ==
    /\ [](sent.handler \in Handlers =>
            sent.body = Solo(sent.handler, sent.draw, APP_VERSION, Res))
    /\ [][/\ APP_VERSION' = APP_VERSION
          /\ environ' = environ
          /\ Len(log') >= Len(log)
          /\ SubSeq(log', 1, Len(log)) = log]_vars

\* C10 witness: a predict has answered while another, drawn differently, is
\* still in progress
RequestsIndependentWitness ==
    /\ sent.handler = "predict"
    /\ \E s \in Slots :
          /\ pc[s] = "predict_log"
          /\ frame[s].draw # sent.draw
          /\ frame[s].result # sent.body

====
